---- MODULE Spec2Model ----
(***************************************************************************)
(* Analytic curve engine of the math-equation-visualizer: the numeric      *)
(* helpers of utils/math_utils.py and the family analyzers of modules/.    *)
(*                                                                         *)
(* Numbers.  The program computes in binary64.  The model computes in      *)
(* exact arithmetic: a number is a decimal-scaled fraction                 *)
(*        [n, d, e]   standing for   (n / d) * 10^e                        *)
(* kept in a canonical form (d > 0, gcd(n, d) = 1, neither n nor d a       *)
(* multiple of 5), so that two numbers are equal exactly when their        *)
(* records are equal.  The scale e lets the thresholds of the code (1e-12, *)
(* 1e-10, 1e-8, 1e-6) stand next to slider-sized values without leaving    *)
(* the machine integers of the checker.  A value of the form u + v*sqrt(r) *)
(* (a root of a quadratic) is a record [u, v, rad].                        *)
(* The record Err (d = 0) is the outcome of a division by zero, which in   *)
(* Python raises ZeroDivisionError; every operation propagates it.         *)
(***************************************************************************)
EXTENDS Integers, Sequences, FiniteSets, TLC

\* ------------------------------------------------------------------ bounds
\* coefficients of the enumerated polynomials range over -MaxCoef..MaxCoef
MaxCoef == 1
\* longest enumerated coefficient sequence
MaxLen == 4
\* largest sample count handed to safe_linspace
MaxCount == 4

\* ------------------------------------------------------- integer helpers
IAbs(i) == IF i < 0 THEN -i ELSE i

ISign(i) == IF i < 0 THEN -1 ELSE IF i > 0 THEN 1 ELSE 0

IMin(i, j) == IF i <= j THEN i ELSE j

RECURSIVE GCD(_, _)
GCD(i, j) == IF j = 0 THEN i ELSE GCD(j, i % j)

RECURSIVE Pow10(_)
Pow10(k) == IF k <= 0 THEN 1 ELSE 10 * Pow10(k - 1)

\* exact quotient of i by a positive divisor j of i (i may be negative)
IQuot(i, j) == ISign(i) * (IAbs(i) \div j)

\* --------------------------------------------------------------- numbers
Err == [n |-> 0, d |-> 0, e |-> 0]

IsErr(x) == x.d = 0

Zero == [n |-> 0, d |-> 1, e |-> 0]

\* canonical form of (n / d) * 10^e for coprime n, d with d > 0 and n # 0:
\* every factor 5 is moved into the scale
RECURSIVE Canon(_, _, _)
Canon(n, d, e) ==
    IF d % 10 = 0 THEN Canon(n, d \div 10, e - 1)
    ELSE IF d % 5 = 0 THEN Canon(n * 2, d \div 5, e - 1)
    ELSE IF n % 10 = 0 THEN Canon(IQuot(n, 10), d, e + 1)
    ELSE IF n % 5 = 0 THEN Canon(IQuot(n, 5), d * 2, e + 1)
    ELSE [n |-> n, d |-> d, e |-> e]

\* the number (n / d) * 10^e, for d # 0
Num(n, d, e) ==
    IF n = 0 THEN Zero
    ELSE LET g == GCD(IAbs(n), IAbs(d))
         IN  Canon(ISign(d) * IQuot(n, g), IAbs(d) \div g, e)

\* the integer i as a number
I(i) == Num(i, 1, 0)

\* the decimal literal m * 10^e, m e
Dec(m, e) == Num(m, 1, e)

Sign(x) == ISign(x.n)

Neg(x) == IF IsErr(x) THEN Err ELSE [x EXCEPT !.n = -x.n]

Abs(x) == IF IsErr(x) THEN Err ELSE [x EXCEPT !.n = IAbs(x.n)]

Mul(x, y) ==
    IF IsErr(x) \/ IsErr(y) THEN Err
    ELSE IF x.n = 0 \/ y.n = 0 THEN Zero
    ELSE Num(x.n * y.n, x.d * y.d, x.e + y.e)

\* x / y; Python raises ZeroDivisionError for a zero divisor
Div(x, y) ==
    IF IsErr(x) \/ IsErr(y) \/ y.n = 0 THEN Err
    ELSE IF x.n = 0 THEN Zero
    ELSE Num(x.n * y.d, x.d * y.n, x.e - y.e)

Add(x, y) ==
    IF IsErr(x) \/ IsErr(y) THEN Err
    ELSE IF x.n = 0 THEN y
    ELSE IF y.n = 0 THEN x
    ELSE LET e == IMin(x.e, y.e)
             nx == x.n * Pow10(x.e - e)
             ny == y.n * Pow10(y.e - e)
         IN  Num(nx * y.d + ny * x.d, x.d * y.d, e)

Sub(x, y) == Add(x, Neg(y))

\* |x| < |y| for nonzero x, y, decided without scaling beyond 10^9
MagLt(x, y) ==
    LET A == IAbs(x.n) * y.d
        B == IAbs(y.n) * x.d
        g == x.e - y.e
    IN  IF g >= 0
        THEN IF g > 9 THEN FALSE ELSE A <= (B - 1) \div Pow10(g)
        ELSE IF -g > 9 THEN TRUE ELSE ~(B <= A \div Pow10(-g))

\* x < y; a comparison with Err never happens in the program and is FALSE here
Lt(x, y) ==
    IF IsErr(x) \/ IsErr(y) THEN FALSE
    ELSE IF Sign(x) # Sign(y) THEN Sign(x) < Sign(y)
    ELSE IF Sign(x) = 0 THEN FALSE
    ELSE IF Sign(x) > 0 THEN MagLt(x, y)
    ELSE MagLt(y, x)

Le(x, y) == ~IsErr(x) /\ ~IsErr(y) /\ ~Lt(y, x)

Gt(x, y) == Lt(y, x)

Ge(x, y) == Le(y, x)

Sq(x) == Mul(x, x)

One == I(1)

\* ------------------------------------------- values u + v * sqrt(rad)
\* floor of the square root of i >= 0, searched between lo and hi
RECURSIVE ISqrtIn(_, _, _)
ISqrtIn(i, lo, hi) ==
    IF lo >= hi THEN lo
    ELSE LET mid == (lo + hi + 1) \div 2
         IN  IF mid * mid <= i THEN ISqrtIn(i, mid, hi) ELSE ISqrtIn(i, lo, mid - 1)

ISqrt(i) == ISqrtIn(i, 0, IMin(i, 46340))

IsSquare(i) == i >= 0 /\ ISqrt(i) * ISqrt(i) = i

\* a canonical number is the square of a rational exactly when its scale is
\* even and its numerator and denominator are squares
IsRatSquare(x) == x.n >= 0 /\ x.e % 2 = 0 /\ IsSquare(x.n) /\ IsSquare(x.d)

RatSqrt(x) == Num(ISqrt(x.n), ISqrt(x.d), x.e \div 2)

SErr == [u |-> Err, v |-> Err, rad |-> Err]

SIsErr(s) == IsErr(s.u) \/ IsErr(s.v) \/ IsErr(s.rad)

\* the rational x as a value
RatS(x) == IF IsErr(x) THEN SErr ELSE [u |-> x, v |-> Zero, rad |-> Zero]

\* u + v * sqrt(rad) for rad >= 0; for rad < 0 the complex number
\* u + v * sqrt(-rad) * i.  A rational square root is folded into u.
Surd(u, v, rad) ==
    IF IsErr(u) \/ IsErr(v) \/ IsErr(rad) THEN SErr
    ELSE IF v.n = 0 \/ rad.n = 0 THEN RatS(u)
    ELSE IF IsRatSquare(rad) THEN RatS(Add(u, Mul(v, RatSqrt(rad))))
    ELSE [u |-> u, v |-> v, rad |-> rad]

IsComplex(s) == ~SIsErr(s) /\ Sign(s.rad) < 0

\* the radicand shared by two values of one quadratic
JoinRad(s, t) == IF s.v.n = 0 THEN t.rad ELSE s.rad

SNeg(s) == IF SIsErr(s) THEN SErr ELSE Surd(Neg(s.u), Neg(s.v), s.rad)

SAdd(s, t) ==
    IF SIsErr(s) \/ SIsErr(t) THEN SErr
    ELSE Surd(Add(s.u, t.u), Add(s.v, t.v), JoinRad(s, t))

SSub(s, t) == SAdd(s, SNeg(t))

SMul(s, t) ==
    IF SIsErr(s) \/ SIsErr(t) THEN SErr
    ELSE LET r == JoinRad(s, t)
         IN  Surd(Add(Mul(s.u, t.u), Mul(Mul(s.v, t.v), r)),
                  Add(Mul(s.u, t.v), Mul(s.v, t.u)), r)

\* s / x for a rational x
SDivNum(s, x) ==
    IF SIsErr(s) \/ IsErr(x) \/ x.n = 0 THEN SErr
    ELSE Surd(Div(s.u, x), Div(s.v, x), s.rad)

\* sign of the real value u + v * sqrt(rad), rad >= 0
SSign(s) ==
    IF s.v.n = 0 \/ s.rad.n = 0 THEN Sign(s.u)
    ELSE IF s.u.n = 0 THEN Sign(s.v)
    ELSE IF Sign(s.u) = Sign(s.v) THEN Sign(s.u)
    ELSE LET p2 == Sq(s.u)
             q2 == Mul(Sq(s.v), s.rad)
         IN  IF Lt(q2, p2) THEN Sign(s.u)
             ELSE IF Lt(p2, q2) THEN Sign(s.v)
             ELSE 0

IsRat(s) == s.v.n = 0

\* sign of s - t; two rationals are compared without subtracting
SCmp(s, t) ==
    IF IsRat(s) /\ IsRat(t)
    THEN IF Lt(s.u, t.u) THEN -1 ELSE IF Lt(t.u, s.u) THEN 1 ELSE 0
    ELSE SSign(SSub(s, t))

SLt(s, t) == ~SIsErr(s) /\ ~SIsErr(t) /\ SCmp(s, t) < 0

SLe(s, t) == ~SIsErr(s) /\ ~SIsErr(t) /\ SCmp(s, t) <= 0

SEq(s, t) == ~SIsErr(s) /\ ~SIsErr(t) /\ SCmp(s, t) = 0

\* np.sqrt(x) for x >= 0
SqrtS(x) == Surd(Zero, One, x)

\* Python's sorted() on a list of real values: insertion sort
RECURSIVE Insert(_, _)
Insert(s, sorted) ==
    IF sorted = << >> THEN << s >>
    ELSE IF SLe(s, Head(sorted)) THEN << s >> \o sorted
    ELSE << Head(sorted) >> \o Insert(s, Tail(sorted))

RECURSIVE Sorted(_)
Sorted(seq) == IF seq = << >> THEN << >> ELSE Insert(Head(seq), Sorted(Tail(seq)))

\* ------------------------------------------------------ code thresholds
\* 1e-12: the guard on a leading coefficient or divisor
EPS_COEF == Dec(1, -12)

\* 1e-10: the tolerance around a zero discriminant
TOL_DISC == Dec(1, -10)

\* 1e-8: the bound on the imaginary part of a root kept as real
TOL_IMAG == Dec(1, -8)

\* 1e-6: the width given to an empty or inverted sample domain
MIN_WIDTH == Dec(1, -6)

\* ------------------------------------------------- utils/math_utils.py
quadratic_discriminant(a, b, c) == Sub(Sq(b), Mul(Mul(I(4), a), c))

\* The nature string without its formatted numbers (D=..., re ± im i).
NatConstant == "Constant (no roots)"

NatLinear == "Linear (one root)"

NatTwoReal == "Two distinct real roots"

NatRepeated == "One repeated real root"

NatComplex == "Two complex roots"

\* quadratic_roots with the test of b left out of the degenerate branch
quadratic_roots_no_b_guard(a, b, c) ==
    IF Lt(Abs(a), EPS_COEF)
    THEN [nature |-> NatLinear, roots |-> << RatS(Div(Neg(c), b)) >>, divs |-> {"b"}]
    ELSE LET D == quadratic_discriminant(a, b, c)
             twoa == Mul(I(2), a)
         IN  IF Gt(D, Zero)
             THEN LET r1 == SDivNum(SAdd(RatS(Neg(b)), SqrtS(D)), twoa)
                      r2 == SDivNum(SSub(RatS(Neg(b)), SqrtS(D)), twoa)
                  IN  [nature |-> NatTwoReal, roots |-> Sorted(<< r1, r2 >>),
                       divs |-> {"a"}]
             ELSE IF Lt(Abs(D), TOL_DISC)
             THEN [nature |-> NatRepeated,
                   roots |-> << RatS(Div(Neg(b), twoa)) >>, divs |-> {"a"}]
             ELSE [nature |-> NatComplex, roots |-> << >>, divs |-> {"a"}]

\* quadratic_roots(a, b, c) -> (nature, roots); divs names the parameters
\* the taken branch divides by
quadratic_roots(a, b, c) ==
    IF Lt(Abs(a), EPS_COEF)
    THEN IF Lt(Abs(b), EPS_COEF)
         THEN [nature |-> NatConstant, roots |-> << >>, divs |-> {}]
         ELSE [nature |-> NatLinear, roots |-> << RatS(Div(Neg(c), b)) >>,
               divs |-> {"b"}]
    ELSE LET D == quadratic_discriminant(a, b, c)
             twoa == Mul(I(2), a)
         IN  IF Gt(D, Zero)
             THEN LET r1 == SDivNum(SAdd(RatS(Neg(b)), SqrtS(D)), twoa)
                      r2 == SDivNum(SSub(RatS(Neg(b)), SqrtS(D)), twoa)
                  IN  [nature |-> NatTwoReal, roots |-> Sorted(<< r1, r2 >>),
                       divs |-> {"a"}]
             ELSE IF Lt(Abs(D), TOL_DISC)
             THEN [nature |-> NatRepeated,
                   roots |-> << RatS(Div(Neg(b), twoa)) >>, divs |-> {"a"}]
             ELSE [nature |-> NatComplex, roots |-> << >>, divs |-> {"a"}]

\* quadratic_vertex with the factor 2 of the denominator left out
quadratic_vertex_no_two(a, b, c) ==
    IF Lt(Abs(a), EPS_COEF) THEN << Zero, c >>
    ELSE LET xv == Div(Neg(b), a)
             yv == Add(Add(Mul(a, Sq(xv)), Mul(b, xv)), c)
         IN  << xv, yv >>

\* quadratic_vertex(a, b, c) -> (xv, yv)
quadratic_vertex(a, b, c) ==
    IF Lt(Abs(a), EPS_COEF) THEN << Zero, c >>
    ELSE LET xv == Div(Neg(b), Mul(I(2), a))
             yv == Add(Add(Mul(a, Sq(xv)), Mul(b, xv)), c)
         IN  << xv, yv >>

\* np.polyval(p, x): Horner's rule, y = y * x + pv for each pv of p
RECURSIVE Horner(_, _, _)
Horner(p, x, y) ==
    IF p = << >> THEN y ELSE Horner(Tail(p), x, Add(Mul(y, x), Head(p)))

\* polynomial_value reading the coefficients lowest degree first
polynomial_value_ascending(coeffs, x) ==
    Horner([i \in 1..Len(coeffs) |-> coeffs[Len(coeffs) - i + 1]], x, Zero)

\* polynomial_value(coeffs, [x])[0]
polynomial_value(coeffs, x) == Horner(coeffs, x, Zero)

\* polynomial_derivative with every exponent one too small
polynomial_derivative_off_by_one(coeffs) ==
    LET n == Len(coeffs)
    IN  IF n <= 1 THEN << Zero >>
        ELSE [i \in 1..(n - 1) |-> Mul(coeffs[i], I(n - 1 - i))]

\* polynomial_derivative(coeffs); index i of the code is i - 1 here
polynomial_derivative(coeffs) ==
    LET n == Len(coeffs)
    IN  IF n <= 1 THEN << Zero >>
        ELSE [i \in 1..(n - 1) |-> Mul(coeffs[i], I(n - i))]

\* all(c == 0 for c in p)
AllZero(p) == \A i \in 1..Len(p) : p[i] = Zero

\* ----------------------------------------------------------- np.roots
\* The rational numbers that can be a root of a polynomial whose integer
\* coefficients lie in -MaxCoef..MaxCoef (rational root theorem).
RootCands ==
    {Num(k, m, 0) : k \in (-MaxCoef..MaxCoef) \ {0}, m \in 1..MaxCoef}

RatRootsOf(q) == {r \in RootCands : Horner(q, r, Zero) = Zero}

\* quotient of q by (x - r) for a root r of q: synthetic division
RECURSIVE Deflate(_, _, _)
Deflate(q, r, carry) ==
    IF Len(q) <= 1 THEN << >>
    ELSE LET t == Add(Head(q), Mul(carry, r))
         IN  << t >> \o Deflate(Tail(q), r, t)

\* The eigenvalues of the companion matrix of q are the complex roots of q,
\* each as often as its multiplicity.  They are computed exactly: the root
\* of a linear q, the two roots (-b +- sqrt(D)) / 2a of a quadratic q, and
\* for a longer q one rational root and the roots of the quotient.  q has
\* nonzero first and last coefficients.
RECURSIVE EigVals(_)
EigVals(q) ==
    IF Len(q) = 2 THEN << RatS(Div(Neg(q[2]), q[1])) >>
    ELSE IF Len(q) = 3
    THEN LET D == quadratic_discriminant(q[1], q[2], q[3])
             u == Div(Neg(q[2]), Mul(I(2), q[1]))
             v == Div(One, Mul(I(2), q[1]))
         IN  << Surd(u, v, D), Surd(u, Neg(v), D) >>
    ELSE LET rs == RatRootsOf(q)
         IN  IF rs = {} THEN << >>
             ELSE LET r == CHOOSE x \in rs : TRUE
                  IN  << RatS(r) >> \o EigVals(Deflate(q, r, Zero))

\* whether EigVals finds every root of q
RECURSIVE Solvable(_)
Solvable(q) ==
    \/ Len(q) <= 3
    \/ /\ RatRootsOf(q) # {}
       /\ Solvable(Deflate(q, CHOOSE x \in RatRootsOf(q) : TRUE, Zero))

NonZeroIdx(p) == {i \in 1..Len(p) : p[i] # Zero}

SetMin(S) == CHOOSE i \in S : \A j \in S : i <= j

SetMax(S) == CHOOSE i \in S : \A j \in S : i >= j

\* p without its leading and trailing zeros (p is not all zero)
Stripped(p) == SubSeq(p, SetMin(NonZeroIdx(p)), SetMax(NonZeroIdx(p)))

\* np.roots(p): empty for an all-zero p; otherwise the eigenvalues for p
\* stripped of leading and trailing zeros (none when a constant is left),
\* followed by one zero root for each trailing zero
np_roots(p) ==
    IF NonZeroIdx(p) = {} THEN << >>
    ELSE LET q == Stripped(p)
             trailing == Len(p) - SetMax(NonZeroIdx(p))
         IN  (IF Len(q) > 1 THEN EigVals(q) ELSE << >>)
             \o [i \in 1..trailing |-> RatS(Zero)]

\* abs(r.imag) < tol
ImagBelow(r, tol) ==
    IF IsComplex(r) THEN Lt(Mul(Sq(r.v), Neg(r.rad)), Sq(tol)) ELSE TRUE

\* r.real
RealPart(r) == IF IsComplex(r) THEN RatS(r.u) ELSE r

RECURSIVE SelectReal(_)
SelectReal(rs) ==
    IF rs = << >> THEN << >>
    ELSE (IF ImagBelow(Head(rs), TOL_IMAG) THEN << RealPart(Head(rs)) >> ELSE << >>)
         \o SelectReal(Tail(rs))

\* find_real_roots without the final sort
find_real_roots_unsorted(coefficients) == SelectReal(np_roots(coefficients))

\* find_real_roots(coefficients)
find_real_roots(coefficients) == Sorted(SelectReal(np_roots(coefficients)))

\* [r for r in roots if lo <= r <= hi]
RECURSIVE InRange(_, _, _)
InRange(rs, lo, hi) ==
    IF rs = << >> THEN << >>
    ELSE (IF SLe(RatS(lo), Head(rs)) /\ SLe(Head(rs), RatS(hi))
          THEN << Head(rs) >> ELSE << >>)
         \o InRange(Tail(rs), lo, hi)

\* find_critical_points without the restriction to the range
find_critical_points_unbounded(coeffs, lo, hi) ==
    LET deriv == polynomial_derivative(coeffs)
    IN  IF AllZero(deriv) THEN << >>
        ELSE find_real_roots(deriv)

\* find_critical_points(coeffs, (lo, hi))
find_critical_points(coeffs, lo, hi) ==
    LET deriv == polynomial_derivative(coeffs)
    IN  IF AllZero(deriv) THEN << >>
        ELSE InRange(find_real_roots(deriv), lo, hi)

\* find_inflection_points(coeffs, (lo, hi))
find_inflection_points(coeffs, lo, hi) ==
    LET deriv2 == polynomial_derivative(polynomial_derivative(coeffs))
    IN  IF AllZero(deriv2) THEN << >>
        ELSE InRange(find_real_roots(deriv2), lo, hi)

\* np.linspace(start, stop, num): ValueError for num < 0; num values
\* start + i * step with step = (stop - start) / (num - 1), the last one
\* set to stop when num > 1
np_linspace(start, stop, num) ==
    IF num < 0 THEN [raised |-> TRUE, vals |-> << >>]
    ELSE LET delta == Sub(stop, start)
             step == IF num > 1 THEN Div(delta, I(num - 1)) ELSE delta
         IN  [raised |-> FALSE,
              vals |-> [i \in 1..num |->
                          IF num > 1 /\ i = num THEN stop
                          ELSE Add(Mul(I(i - 1), step), start)]]

\* safe_linspace widening an inverted domain only, not an empty one
safe_linspace_strict(start, end, num) ==
    np_linspace(start, IF Gt(start, end) THEN Add(start, MIN_WIDTH) ELSE end, num)

\* safe_linspace(start, end, num)
safe_linspace(start, end, num) ==
    np_linspace(start, IF Ge(start, end) THEN Add(start, MIN_WIDTH) ELSE end, num)

\* ------------------------------------------------- utils/plot_utils.py
\* 1e6: the default y_max of clip_y
Y_MAX == Dec(1, 6)

\* float("nan"): every comparison with it is False
NaN == [n |-> 1, d |-> 0, e |-> 0]

\* np.clip(y, -y_max, y_max) on one value; a NaN is returned as it is
ClipOne(y, y_max) ==
    IF Lt(y, Neg(y_max)) THEN Neg(y_max)
    ELSE IF Gt(y, y_max) THEN y_max
    ELSE y

\* clip_y that bounds the values from above only
clip_y_upper_only(y) ==
    [i \in 1..Len(y) |-> IF Gt(y[i], Y_MAX) THEN Y_MAX ELSE y[i]]

\* clip_y(y) for a sequence y
clip_y(y) == [i \in 1..Len(y) |-> ClipOne(y[i], Y_MAX)]

\* ------------------------------------------------------ Python values
\* None, and a value that is not None
None == << >>

Some(x) == << x >>

\* f"{v:.4f}" raises TypeError for None (and the program has already
\* raised when v holds the outcome of a division by zero)
FormatRaises(v) == v = None \/ SIsErr(v[1])

\* A sampled curve handed to the figure.  The sample points xs are computed;
\* the y-values are kept as the expression the code evaluates on them (the
\* family, its parameters, whether clip_y was applied): array arithmetic in
\* numpy cannot raise.
Curve(family, params, xs, clipped) ==
    [family |-> family, params |-> params, xs |-> xs, clipped |-> clipped]

\* add_scatter_point(fig, x, y, label, ...): a marked point
Mark(cat, x, y) == [cat |-> cat, x |-> x, y |-> y]

\* number of samples a plot takes, standing for the 1000 (1200, 800) of the code
PlotSamples == 3

\* --------------------------------------------------- modules/linear.py
\* compute_linear(m, c, x) for one x
compute_linear(m, c, x) == SAdd(SMul(RatS(m), x), RatS(c))

\* linear_properties without the branch for a zero slope
linear_properties_unguarded(m, c) ==
    [slope |-> m, y_intercept |-> c,
     x_intercept |-> Some(RatS(Div(Neg(c), m))),
     parallel_to_x |-> FALSE, is_vertical |-> FALSE]

\* linear_properties guarding against m = 0 only
linear_properties_exact_zero(m, c) ==
    IF m = Zero
    THEN [slope |-> m, y_intercept |-> c, x_intercept |-> None,
          parallel_to_x |-> TRUE, is_vertical |-> FALSE]
    ELSE [slope |-> m, y_intercept |-> c,
          x_intercept |-> Some(RatS(Div(Neg(c), m))),
          parallel_to_x |-> FALSE, is_vertical |-> FALSE]

\* linear_properties(m, c)
linear_properties(m, c) ==
    IF Lt(Abs(m), EPS_COEF)
    THEN [slope |-> m, y_intercept |-> c, x_intercept |-> None,
          parallel_to_x |-> TRUE, is_vertical |-> FALSE]
    ELSE [slope |-> m, y_intercept |-> c,
          x_intercept |-> Some(RatS(Div(Neg(c), m))),
          parallel_to_x |-> FALSE, is_vertical |-> FALSE]

\* plot_linear(m, c, (lo, hi))
plot_linear(m, c, lo, hi) ==
    LET x == safe_linspace(lo, hi, PlotSamples)
        props == linear_properties(m, c)
        xi == props.x_intercept
    IN  [raised |-> x.raised \/ (xi # None /\ SIsErr(xi[1])),
         curves |-> << Curve("linear", << m, c >>, x.vals, FALSE) >>,
         marks |-> << Mark("y-int", RatS(Zero), RatS(c)) >>
                   \o (IF xi # None /\ SLe(RatS(lo), xi[1]) /\ SLe(xi[1], RatS(hi))
                       THEN << Mark("x-int", xi[1], RatS(Zero)) >> ELSE << >>)]

\* render_linear() with the slider values m, c, x_min, x_max
render_linear(m, c, x_min, x_max) ==
    LET props == linear_properties(m, c)
        fig == plot_linear(m, c, x_min, x_max)
        xi == props.x_intercept
    IN  [raised |-> \/ fig.raised
                    \/ (xi # None /\ FormatRaises(xi))
                    \/ (~props.parallel_to_x /\ FormatRaises(props.x_intercept)),
         fig |-> fig,
         x_intercept |-> xi]

\* ------------------------------------------------ modules/quadratic.py
\* compute_quadratic(a, b, c, x) for one x
compute_quadratic(a, b, c, x) ==
    SAdd(SAdd(SMul(RatS(a), SMul(x, x)), SMul(RatS(b), x)), RatS(c))

RECURSIVE RootMarks(_, _, _)
RootMarks(rs, lo, hi) ==
    IF rs = << >> THEN << >>
    ELSE (IF SLe(RatS(lo), Head(rs)) /\ SLe(Head(rs), RatS(hi))
          THEN << Mark("root", Head(rs), RatS(Zero)) >> ELSE << >>)
         \o RootMarks(Tail(rs), lo, hi)

AnyErr(rs) == \E i \in 1..Len(rs) : SIsErr(rs[i])

\* plot_quadratic(a, b, c, (lo, hi))
plot_quadratic(a, b, c, lo, hi) ==
    LET x == safe_linspace(lo, hi, PlotSamples)
        vtx == quadratic_vertex(a, b, c)
        qr == quadratic_roots(a, b, c)
    IN  [raised |-> x.raised \/ IsErr(vtx[1]) \/ IsErr(vtx[2]) \/ AnyErr(qr.roots),
         curves |-> << Curve("quadratic", << a, b, c >>, x.vals, FALSE) >>,
         marks |-> << Mark("vertex", RatS(vtx[1]), RatS(vtx[2])) >>
                   \o RootMarks(qr.roots, lo, hi)]

\* render_quadratic() with the slider values a, b, c, x_min, x_max; shown is
\* the message box the nature of the roots is put in
render_quadratic(a, b, c, x_min, x_max) ==
    LET D == quadratic_discriminant(a, b, c)
        qr == quadratic_roots(a, b, c)
        vtx == quadratic_vertex(a, b, c)
        fig == plot_quadratic(a, b, c, x_min, x_max)
    IN  [raised |-> \/ AnyErr(qr.roots) \/ IsErr(vtx[1]) \/ IsErr(vtx[2])
                    \/ fig.raised,
         fig |-> fig,
         nature |-> qr.nature,
         roots |-> qr.roots,
         shown |-> IF Gt(D, TOL_DISC) THEN "success"
                   ELSE IF Le(Abs(D), TOL_DISC) THEN "info"
                   ELSE "warning"]

\* ---------------------------------------------------- modules/cubic.py
\* compute_cubic(a, b, c, d, x) for one x
compute_cubic(a, b, c, d, x) ==
    SAdd(SAdd(SAdd(SMul(RatS(a), SMul(x, SMul(x, x))),
                   SMul(RatS(b), SMul(x, x))),
              SMul(RatS(c), x)),
         RatS(d))

\* cubic_derivative_coeffs(a, b, c)
cubic_derivative_coeffs(a, b, c) == << Mul(I(3), a), Mul(I(2), b), c >>

\* cubic_inflection guarding against a = 0 only
cubic_inflection_exact_zero(a, b) ==
    IF a = Zero THEN None
    ELSE Some(RatS(Div(Neg(b), Mul(I(3), a))))

\* cubic_inflection(a, b)
cubic_inflection(a, b) ==
    IF Lt(Abs(a), EPS_COEF) THEN None
    ELSE Some(RatS(Div(Neg(b), Mul(I(3), a))))

RECURSIVE CritMarks(_, _, _, _, _)
CritMarks(crit, a, b, c, d) ==
    IF crit = << >> THEN << >>
    ELSE << Mark("crit", Head(crit), compute_cubic(a, b, c, d, Head(crit))) >>
         \o CritMarks(Tail(crit), a, b, c, d)

\* plot_cubic(a, b, c, d, (lo, hi))
plot_cubic(a, b, c, d, lo, hi) ==
    LET x == safe_linspace(lo, hi, PlotSamples)
        dc == cubic_derivative_coeffs(a, b, c)
        crit == find_critical_points(<< a, b, c, d >>, lo, hi)
        xi == cubic_inflection(a, b)
    IN  [raised |-> x.raised \/ AnyErr(crit) \/ (xi # None /\ SIsErr(xi[1])),
         curves |-> << Curve("cubic", << a, b, c, d >>, x.vals, TRUE),
                       Curve("quadratic", dc, x.vals, TRUE) >>,
         marks |-> CritMarks(crit, a, b, c, d)
                   \o (IF xi # None /\ SLe(RatS(lo), xi[1]) /\ SLe(xi[1], RatS(hi))
                       THEN << Mark("infl", xi[1], compute_cubic(a, b, c, d, xi[1])) >>
                       ELSE << >>)]

\* render_cubic() with the slider values a, b, c, d, x_min, x_max
render_cubic(a, b, c, d, x_min, x_max) ==
    LET crit == find_critical_points(<< a, b, c, d >>, x_min, x_max)
        xi == cubic_inflection(a, b)
        fig == plot_cubic(a, b, c, d, x_min, x_max)
    IN  [raised |-> \/ AnyErr(crit) \/ fig.raised
                    \/ (xi # None /\ FormatRaises(xi)),
         fig |-> fig,
         crit |-> crit,
         inflection |-> xi]

\* ----------------------------------------------- modules/polynomial.py
\* build_coeffs_from_sidebar that appends the sliders from k = 0 upwards
build_coeffs_ascending(degree, sliders) ==
    [i \in 1..(degree + 1) |-> sliders[i]]

\* build_coeffs_from_sidebar(degree): the slider keyed poly_coeff_k, whose
\* value is sliders[k + 1], is read for k = degree down to 0
build_coeffs_from_sidebar(degree, sliders) ==
    [i \in 1..(degree + 1) |-> sliders[degree - i + 2]]

\* build_poly_title(coeffs): the degrees of the terms that are written
\* (those with abs(c) >= 1e-12); no term stands for "y = 0"
build_poly_title(coeffs) ==
    LET n == Len(coeffs) - 1
    IN  {n - i + 1 : i \in {j \in 1..Len(coeffs) : ~Lt(Abs(coeffs[j]), EPS_COEF)}}

\* plot_polynomial(coeffs, (lo, hi))
plot_polynomial(coeffs, lo, hi) ==
    LET x == safe_linspace(lo, hi, PlotSamples)
        roots == find_real_roots(coeffs)
    IN  [raised |-> x.raised \/ AnyErr(roots),
         curves |-> << Curve("polynomial", coeffs, x.vals, TRUE) >>,
         marks |-> RootMarks(roots, lo, hi)]

\* render_polynomial() with the chosen degree and the slider values
render_polynomial(degree, sliders, x_min, x_max) ==
    LET coeffs == build_coeffs_from_sidebar(degree, sliders)
        roots == find_real_roots(coeffs)
        fig == plot_polynomial(coeffs, x_min, x_max)
    IN  [raised |-> AnyErr(roots) \/ fig.raised \/ Len(coeffs) = 0,
         fig |-> fig,
         coeffs |-> coeffs,
         degree |-> Len(coeffs) - 1,
         leading |-> coeffs[1],
         end_behavior |-> IF Gt(coeffs[1], Zero) THEN "+inf" ELSE "-inf",
         roots |-> roots,
         in_range |-> InRange(roots, x_min, x_max)]

\* -------------------------------------------------- modules/ellipse.py
\* a multiple x * pi of pi, and the sentinel float("inf")
PiTimes(x) == [inf |-> FALSE, pi |-> x]

Infinite == [inf |-> TRUE, pi |-> Zero]

\* 1e-9: the guard on a semi-axis
EPS_AXIS == Dec(1, -9)

NMax(x, y) == IF Lt(x, y) THEN y ELSE x

NMin(x, y) == IF Lt(y, x) THEN y ELSE x

\* x - y in binary64 when one operand is too small to change the other: the
\* difference rounds to the larger operand when the smaller is at most
\* 2^-54 times it.  ABSORBED is 5.55e-17, just below 2^-54; no difference
\* is taken here whose operands have a ratio between the two.
ABSORBED == Dec(555, -19)

Absorbs(x, y) == y # Zero /\ Le(Abs(y), Mul(Abs(x), ABSORBED))

FSub(x, y) ==
    IF Absorbs(x, y) THEN x
    ELSE IF Absorbs(y, x) THEN Neg(y)
    ELSE Sub(x, y)

\* ellipse_properties naming the x-axis only when |a| > |b|
ellipse_properties_strict_axis(a, b) ==
    IF Lt(Abs(a), EPS_AXIS) \/ Lt(Abs(b), EPS_AXIS)
    THEN [error |-> "Semi-axes must be non-zero"]
    ELSE LET major == NMax(Abs(a), Abs(b))
             minor == NMin(Abs(a), Abs(b))
         IN  [semi_major |-> major,
              semi_minor |-> minor,
              area |-> PiTimes(Mul(Abs(a), Abs(b))),
              eccentricity |-> IF Gt(major, Zero)
                               THEN SqrtS(FSub(One, Sq(Div(minor, major))))
                               ELSE RatS(Zero),
              focal_distance |-> SqrtS(NMax(FSub(Sq(Abs(a)), Sq(Abs(b))), Zero)),
              major_axis_length |-> Mul(I(2), major),
              minor_axis_length |-> Mul(I(2), minor),
              major_axis_along |-> IF Gt(Abs(a), Abs(b)) THEN "x-axis" ELSE "y-axis"]

\* ellipse_properties guarding a only
ellipse_properties_a_only(a, b) ==
    IF Lt(Abs(a), EPS_AXIS)
    THEN [error |-> "Semi-axes must be non-zero"]
    ELSE LET major == NMax(Abs(a), Abs(b))
             minor == NMin(Abs(a), Abs(b))
         IN  [semi_major |-> major,
              semi_minor |-> minor,
              area |-> PiTimes(Mul(Abs(a), Abs(b))),
              eccentricity |-> IF Gt(major, Zero)
                               THEN SqrtS(FSub(One, Sq(Div(minor, major))))
                               ELSE RatS(Zero),
              focal_distance |-> SqrtS(NMax(FSub(Sq(Abs(a)), Sq(Abs(b))), Zero)),
              major_axis_length |-> Mul(I(2), major),
              minor_axis_length |-> Mul(I(2), minor),
              major_axis_along |-> IF Ge(Abs(a), Abs(b)) THEN "x-axis" ELSE "y-axis"]

\* ellipse_properties(a, b): a dict, here a function on its keys
ellipse_properties(a, b) ==
    IF Lt(Abs(a), EPS_AXIS) \/ Lt(Abs(b), EPS_AXIS)
    THEN [error |-> "Semi-axes must be non-zero"]
    ELSE LET major == NMax(Abs(a), Abs(b))
             minor == NMin(Abs(a), Abs(b))
         IN  [semi_major |-> major,
              semi_minor |-> minor,
              area |-> PiTimes(Mul(Abs(a), Abs(b))),
              eccentricity |-> IF Gt(major, Zero)
                               THEN SqrtS(FSub(One, Sq(Div(minor, major))))
                               ELSE RatS(Zero),
              focal_distance |-> SqrtS(NMax(FSub(Sq(Abs(a)), Sq(Abs(b))), Zero)),
              major_axis_length |-> Mul(I(2), major),
              minor_axis_length |-> Mul(I(2), minor),
              major_axis_along |-> IF Ge(Abs(a), Abs(b)) THEN "x-axis" ELSE "y-axis"]

\* 1e-6: the focal distance above which the foci are drawn
EPS_FOCUS == Dec(1, -6)

\* plot_ellipse(a, b): the traces of the figure
plot_ellipse(a, b) ==
    LET props == ellipse_properties(a, b)
        curve == << Curve("ellipse", << a, b >>, << >>, FALSE) >>
    IN  IF "error" \in DOMAIN props
        THEN [raised |-> FALSE, curves |-> curve, marks |-> << >>]
        ELSE LET c == props.focal_distance
                 z == RatS(Zero)
             IN  [raised |-> FALSE,
                  curves |-> curve,
                  marks |-> << Mark("vertex", RatS(a), z), Mark("vertex", RatS(Neg(a)), z),
                               Mark("vertex", z, RatS(b)), Mark("vertex", z, RatS(Neg(b))) >>
                            \o (IF SLt(RatS(EPS_FOCUS), c)
                                THEN IF Ge(Abs(a), Abs(b))
                                     THEN << Mark("focus", c, z), Mark("focus", SNeg(c), z) >>
                                     ELSE << Mark("focus", z, c), Mark("focus", z, SNeg(c)) >>
                                ELSE << >>)]

\* the keys render_ellipse() looks up in the bundle
EllipseKeys ==
    {"area", "eccentricity", "focal_distance", "semi_major", "semi_minor",
     "major_axis_length", "minor_axis_length", "major_axis_along"}

\* render_ellipse() with the slider values a, b: a missing key raises KeyError
render_ellipse(a, b) ==
    LET props == ellipse_properties(a, b)
        fig == plot_ellipse(a, b)
    IN  [raised |-> fig.raised \/ ~(EllipseKeys \subseteq DOMAIN props),
         fig |-> fig,
         error |-> "error" \in DOMAIN props]

\* -------------------------------------------- modules/trigonometric.py
\* The value amp * fn(arg + k/m * 2 pi), kept as an expression; fn "zero"
\* is the constant 0 of np.zeros_like
Trig(amp, fn, arg, k, m) == [amp |-> amp, fn |-> fn, arg |-> arg, k |-> k, m |-> m]

ZeroTerm == Trig(Zero, "zero", Zero, 0, 1)

\* compute_trig without the branch for B == 0
compute_trig_no_zero_branch(A, B, C, func, x) ==
    IF func \in {"sin", "cos"}
    THEN [raised |-> FALSE,
          y |-> [i \in 1..Len(x) |-> Trig(A, func, Add(Mul(B, x[i]), C), 0, 1)]]
    ELSE [raised |-> TRUE, y |-> << >>]

\* compute_trig(A, B, C, func, x) for a sequence x
compute_trig(A, B, C, func, x) ==
    IF B = Zero THEN [raised |-> FALSE, y |-> [i \in 1..Len(x) |-> ZeroTerm]]
    ELSE IF func \in {"sin", "cos"}
    THEN [raised |-> FALSE,
          y |-> [i \in 1..Len(x) |-> Trig(A, func, Add(Mul(B, x[i]), C), 0, 1)]]
    ELSE [raised |-> TRUE, y |-> << >>]

\* trig_properties(A, B, C): period in multiples of pi, frequency in
\* multiples of 1 / pi
trig_properties(A, B, C) ==
    IF Lt(Abs(B), EPS_COEF)
    THEN [amplitude |-> Abs(A), period |-> Infinite, frequency |-> Zero,
          phase_shift |-> Zero, angular_freq |-> Zero]
    ELSE [amplitude |-> Abs(A), angular_freq |-> B,
          period |-> PiTimes(Div(I(2), Abs(B))),
          frequency |-> Div(Abs(B), I(2)),
          phase_shift |-> Div(Neg(C), B)]

\* the number of frames of the animation
N_FRAMES == 60

\* _animated_plot(A, B, C, func, x, title): frame i adds the phase
\* (i - 1) / (N_FRAMES - 1) * 2 pi
animated_plot(A, B, C, func, x) ==
    LET fn == IF func = "sin" THEN "sin" ELSE "cos"
    IN  [raised |-> FALSE,
         y0 |-> [j \in 1..Len(x) |-> Trig(A, fn, Add(Mul(B, x[j]), C), 0, 1)],
         frames |-> [i \in 1..N_FRAMES |->
                       [j \in 1..Len(x) |->
                          Trig(A, fn, Add(Mul(B, x[j]), C), i - 1, N_FRAMES - 1)]],
         marks |-> << >>]

\* plot_trig(A, B, C, func, (lo, hi), show_animation)
plot_trig(A, B, C, func, lo, hi, show_animation) ==
    LET x == safe_linspace(lo, hi, PlotSamples)
        y == compute_trig(A, B, C, func, x.vals)
        props == trig_properties(A, B, C)
        ps == props.phase_shift
    IN  IF x.raised \/ y.raised
        THEN [raised |-> TRUE, y0 |-> << >>, frames |-> << >>, marks |-> << >>]
        ELSE IF show_animation THEN animated_plot(A, B, C, func, x.vals)
        ELSE IF Le(lo, ps) /\ Le(ps, hi)
        THEN LET yps == compute_trig(A, B, C, func, << ps >>)
             IN  [raised |-> IsErr(ps) \/ yps.raised, y0 |-> y.y, frames |-> << >>,
                  marks |-> IF yps.raised THEN << >>
                            ELSE << Mark("phase", ps, yps.y[1]) >>]
        ELSE [raised |-> IsErr(ps), y0 |-> y.y, frames |-> << >>, marks |-> << >>]

\* render_trigonometric() with the widget values
render_trigonometric(func, A, B, C, x_min, x_max, animate) ==
    LET props == trig_properties(A, B, C)
        fig == plot_trig(A, B, C, func, x_min, x_max, animate)
    IN  [raised |-> fig.raised \/ IsErr(props.phase_shift) \/ IsErr(props.frequency)
                    \/ IsErr(props.period.pi),
         fig |-> fig,
         period |-> props.period,
         frequency |-> props.frequency]

\* the degrees the selector offers
MIN_DEGREE == 1

MAX_DEGREE == 6

\* ------------------------------------------------------------- app.py
\* the families of the selector; the first is selected when a session starts
EQUATION_OPTIONS ==
    << "Linear", "Quadratic", "Cubic", "Polynomial", "Ellipse", "Trigonometric" >>

\* the parameter sliders a page draws, in order: the default each declares
\* and one other value it can be moved to.  None of them is given a key.
ParamSliders(family) ==
    CASE family = "Linear" ->
             << [dflt |-> I(1), other |-> I(2)], [dflt |-> Zero, other |-> I(3)] >>
      [] family = "Quadratic" ->
             << [dflt |-> I(1), other |-> I(2)], [dflt |-> Zero, other |-> I(3)],
                [dflt |-> Zero, other |-> I(-4)] >>
      [] family = "Cubic" ->
             << [dflt |-> I(1), other |-> I(2)], [dflt |-> Zero, other |-> I(3)],
                [dflt |-> I(-3), other |-> Zero], [dflt |-> Zero, other |-> I(10)] >>
      [] family = "Ellipse" ->
             << [dflt |-> I(5), other |-> I(4)], [dflt |-> I(3), other |-> I(4)] >>
      [] family = "Trigonometric" ->
             << [dflt |-> I(1), other |-> I(2)], [dflt |-> I(1), other |-> Zero],
                [dflt |-> Zero, other |-> Dec(5, -2)] >>
      [] OTHER -> << >>

\* index=3 of the options 1..6 of the degree selector
DEFAULT_DEGREE == 4

\* the values a coefficient slider is moved to
CoeffMoves == {Zero, I(1), I(2)}

\* what the session holds for a keyed slider: nothing, or the value and the
\* default the slider was created with
NoEntry == [held |-> FALSE, val |-> Zero, dflt |-> Zero]

\* st.sidebar.slider(label, -10.0, 10.0, default, 0.1, key=...): a slider the
\* session holds nothing for is created with its default.  A held one keeps
\* its value if it is the same widget: the installed Streamlit takes either
\* the key alone (key_identity) or the key with every argument, the default
\* among them, as the identity of the widget; a different widget is new.
slider(entry, default, key_identity) ==
    IF entry.held /\ (key_identity \/ entry.dflt = default) THEN entry
    ELSE [held |-> TRUE, val |-> default, dflt |-> default]

\* one run of the script to its end with the given page selected.  The page
\* draws its widgets; what the session holds for widgets the run did not
\* draw is dropped when the run ends.
script_run(s, page) ==
    IF page = "Polynomial"
    THEN LET d == IF s.degree = 0 THEN DEFAULT_DEGREE ELSE s.degree
         IN  [s EXCEPT !.selected = page,
                       !.free = << >>,
                       !.degree = d,
                       !.coeff = [k \in 0..MAX_DEGREE |->
                                    IF k <= d
                                    THEN slider(s.coeff[k], IF k = d THEN I(1) ELSE Zero,
                                                s.key_identity)
                                    ELSE NoEntry]]
    ELSE [s EXCEPT !.selected = page,
                   !.free = IF s.selected = page THEN s.free
                            ELSE [i \in 1..Len(ParamSliders(page)) |->
                                    ParamSliders(page)[i].dflt],
                   !.degree = 0,
                   !.coeff = [k \in 0..MAX_DEGREE |-> NoEntry]]

\* the Reset Parameters button: the keys poly_degree and poly_coeff_* are
\* deleted from the session and st.rerun() starts the script again
reset_parameters(s) ==
    script_run([s EXCEPT !.degree = 0, !.coeff = [k \in 0..MAX_DEGREE |-> NoEntry]],
               s.selected)

\* a session before its first run, and after it
NewSession(key_identity) ==
    [selected |-> "", key_identity |-> key_identity, free |-> << >>, degree |-> 0,
     coeff |-> [k \in 0..MAX_DEGREE |-> NoEntry], touched |-> FALSE]

FirstRun(key_identity) == script_run(NewSession(key_identity), EQUATION_OPTIONS[1])

\* what a run hands to the page: the parameter values, and on the polynomial
\* page the degree and the coefficient sequence
Rendered(s) ==
    [selected |-> s.selected,
     params |-> s.free,
     degree |-> s.degree,
     coeffs |-> IF s.selected = "Polynomial"
                THEN build_coeffs_from_sidebar(s.degree,
                         [i \in 1..(s.degree + 1) |-> s.coeff[i - 1].val])
                ELSE << >>]

\* ===================================================== the state machine
\* inp   the arguments of the calls: kind names the family, x holds the
\*       scalar arguments, coeffs a coefficient sequence, k an integer
\*       argument, tag the function tag, flag a checkbox
\* op    the function or handler called last ("none" before any call)
\* out   what it returned
\* args  the arguments as the caller built them
\* first the first call made and what it returned
\* phase 0 until a function other than the first has been called, 1 from
\*       then on, 2 once the first function has been called again after that
\* session  the browser session of the app: the page selected, what the
\*       session holds for the widgets (free: the parameter sliders of the
\*       page, degree and coeff: the keys poly_degree and poly_coeff_k),
\*       which identity the installed Streamlit gives a keyed widget, and
\*       whether a coefficient slider has ever been moved
VARIABLES inp, op, out, args, first, phase, session

vars == << inp, op, out, args, first, phase, session >>

Input(kind, x, coeffs, k, tag, flag) ==
    [kind |-> kind, x |-> x, coeffs |-> coeffs, k |-> k, tag |-> tag, flag |-> flag]

\* ---- arguments of the pure functions
Ints(S) == {I(i) : i \in S}

\* quadratics of slider size
QuadUnit == Ints(-2..2) \X Ints(-2..2) \X Ints(-2..2)

\* quadratics whose discriminant lies around the tolerance 1e-10
QuadTol ==
    {Dec(1, -6), Dec(-1, -6)}
    \X {Zero, Dec(2, -6), Dec(1, -5), Dec(11, -6)}
    \X {Zero, Dec(1, -6), Dec(-1, -6), Dec(25, -6), Dec(-25, -6), Dec(26, -6), Dec(-26, -6)}

\* quadratics whose a lies below the guard 1e-12
QuadTinyA ==
    {Zero, Dec(5, -13), Dec(-5, -13)}
    \X {Zero, Dec(5, -13), Dec(-5, -13), Dec(1, -12), Dec(-1, -12), I(2)}
    \X {Zero, I(-4), I(3)}

\* quadratics whose a lies on or just above the guard 1e-12
QuadEdgeA ==
    {Dec(1, -12), Dec(-1, -12), Dec(2, -12)}
    \X {Zero, Dec(5, -13), Dec(2, -12), Dec(-3, -12)}
    \X {Zero, Dec(1, -12), Dec(-1, -12)}

\* the quadratics x^2 - 4 and 2x - 4
QuadExamples == {<< I(1), Zero, I(-4) >>, << Zero, I(2), I(-4) >>}

QuadArgs == QuadUnit \cup QuadTol \cup QuadTinyA \cup QuadEdgeA \cup QuadExamples

QuadInputs == {Input("quad", t, << >>, 0, "", FALSE) : t \in QuadArgs}

\* coefficient sequences over -MaxCoef..MaxCoef of length 0..MaxLen
CoefSeqs == UNION {[1..n -> Ints(-MaxCoef..MaxCoef)] : n \in 0..MaxLen}

\* further coefficient sequences: a double root, irrational roots
SpecialSeqs ==
    {<< I(1), I(-2), I(1) >>, << I(1), I(0), I(-4) >>, << I(2), I(0), I(-1) >>,
     << I(1), I(-4), I(4), I(0) >>}

\* quadratics x^2 + c whose roots have imaginary parts 1e-9, 1e-8 and 1e-7
TinyImagSeqs ==
    {<< I(1), Zero, Dec(1, -18) >>, << I(1), Zero, Dec(1, -16) >>,
     << I(1), Zero, Dec(1, -14) >>}

\* whether the model of np.roots finds every root of p
RootsKnown(p) == NonZeroIdx(p) = {} \/ Solvable(Stripped(p))

PolySeqs ==
    {p \in CoefSeqs \cup SpecialSeqs :
        /\ RootsKnown(p)
        /\ RootsKnown(polynomial_derivative(p))
        /\ RootsKnown(polynomial_derivative(polynomial_derivative(p)))}

\* (x, lo, hi): the point of evaluation and the range of the searches
PolyPoints ==
    {<< I(2), I(-1), I(1) >>, << Dec(-5, -1), I(-5), I(5) >>, << I(0), I(1), I(-1) >>}

PolyInputs ==
    {Input("poly", pt, p, 0, "", FALSE) : pt \in PolyPoints, p \in PolySeqs}
    \cup {Input("poly", << Zero, I(-1), I(1) >>, p, 0, "", FALSE) : p \in TinyImagSeqs}

\* every enumerated sequence, for the functions that solve nothing
EvalInputs ==
    {Input("eval", pt, p, 0, "", FALSE) : pt \in PolyPoints, p \in CoefSeqs}

\* cubics (a, b, c, d) with a around the guard 1e-12, and ranges (lo, hi)
CubicArgs ==
    {Zero, Dec(5, -13), Dec(-5, -13), Dec(1, -12), Dec(-1, -12), I(1), I(-2)}
    \X {I(-3), Zero, I(1)} \X {Zero, I(-3)} \X {Zero, I(1)}

CubicRanges ==
    {<< I(-5), I(5) >>, << Dec(-1, 13), Dec(1, 13) >>, << I(1), I(2) >>}

CubicInputs ==
    {Input("cubic", r, << t[1], t[2], t[3], t[4] >>, 0, "", FALSE) :
        r \in CubicRanges, t \in CubicArgs}

SampleInputs ==
    {Input("sample", << lo, hi >>, << >>, n, "", FALSE) :
        lo \in {I(-5), Zero, I(2), I(5)}, hi \in {I(-5), Zero, I(2), I(5)},
        n \in -1..MaxCount}

\* lines (m, c) with m around the guard 1e-12
LinearInputs ==
    {Input("linear", << m, c >>, << >>, 0, "", FALSE) :
        m \in {Zero, Dec(5, -13), Dec(-5, -13), Dec(1, -12), Dec(-1, -12),
               Dec(5, -1), I(1), I(-2)},
        c \in {Zero, I(3), I(-4)}}

\* semi-axes (a, b): zero, around the guard 1e-9, and of slider size
AxisValues ==
    {Zero, Dec(5, -10), Dec(1, -9), Dec(2, -9), Dec(5, -1), I(3), I(4), I(5),
     I(-5), I(10)}

EllipseInputs ==
    {Input("ellipse", << a, b >>, << >>, 0, "", FALSE) :
        a \in AxisValues, b \in AxisValues}

\* (A, B, C, lo, hi), a function tag and the animation flag: B zero and not,
\* tags the page offers and one it does not; B below 1e-12 with C = 0
TrigInputs ==
    {Input("trig", << A, B, C, r[1], r[2] >>, << >>, 0, f, an) :
        A \in {I(-5), Zero, I(2)}, B \in {I(-4), Zero, I(1)},
        C \in {I(-3), Zero, Dec(5, -2)}, r \in {<< I(-6), I(6) >>, << Zero, Zero >>},
        f \in {"sin", "cos", "tan"}, an \in BOOLEAN}
    \cup {Input("trig", << A, Dec(5, -13), Zero, I(-6), I(6) >>, << >>, 0, f, an) :
            A \in {Zero, I(2)}, f \in {"sin", "cos", "tan"}, an \in BOOLEAN}

\* arrays of values inside, on and beyond the bounds of clip_y, and NaN
ClipValues ==
    {Zero, I(5), Dec(-1, 6), Dec(1, 6), I(1000001), Dec(2, 6), Dec(-3, 7), NaN}

ClipInputs ==
    {Input("clip", y, << >>, 0, "", FALSE) :
        y \in {<< >>} \cup {<< v >> : v \in ClipValues}
               \cup {<< v, w >> : v \in ClipValues, w \in ClipValues}}

\* ---- widget values the sliders of the pages can reach
UiLinear ==
    {Input("ui_linear", << m, c, lo, hi >>, << >>, 0, "", FALSE) :
        m \in {I(-10), Dec(-5, -1), Zero, I(1), I(10)}, c \in {I(-10), Zero, I(3)},
        lo \in {I(-10), Zero}, hi \in {Zero, I(10)}}

UiQuadratic ==
    {Input("ui_quadratic", << a, b, c, lo, hi >>, << >>, 0, "", FALSE) :
        a \in {I(-5), Zero, Dec(1, -1), I(1)}, b \in {I(-10), Zero, I(2)},
        c \in {I(-4), Zero, I(10)}, lo \in {I(-10), Zero}, hi \in {Zero, I(10)}}

UiCubic ==
    {Input("ui_cubic", << a, b, c, d, lo, hi >>, << >>, 0, "", FALSE) :
        a \in {I(-5), Zero, I(1)}, b \in {I(-10), Zero, I(3)},
        c \in {I(-3), Zero, I(10)}, d \in {Zero, I(10)},
        lo \in {I(-5), Zero}, hi \in {Zero, I(5)}}

\* slider values poly_coeff_0 .. poly_coeff_d with at most two nonzero
SliderSeqs ==
    UNION {{s \in [1..(d + 1) -> Ints(-1..1)] :
               /\ Cardinality(NonZeroIdx(s)) <= 2
               /\ RootsKnown(build_coeffs_from_sidebar(d, s))} :
           d \in MIN_DEGREE..MAX_DEGREE}

UiPolynomial ==
    {Input("ui_polynomial", << lo, hi >>, s, Len(s) - 1, "", FALSE) :
        s \in SliderSeqs, lo \in {I(-2), Zero}, hi \in {Zero, I(2)}}
    \cup {Input("ui_polynomial", << I(-50), I(50) >>, s, Len(s) - 1, "", FALSE) :
            s \in SliderSeqs}

UiEllipse ==
    {Input("ui_ellipse", << a, b >>, << >>, 0, "", FALSE) :
        a \in {Dec(5, -1), I(3), I(4), I(5), I(10)},
        b \in {Dec(5, -1), I(3), I(4), I(5), I(10)}}

UiTrig ==
    {Input("ui_trig", << A, B, C, lo, hi >>, << >>, 0, f, an) :
        A \in {I(-5), Zero, I(2)}, B \in {I(-4), Zero, I(1)},
        C \in {I(-3), Zero, Dec(5, -2)}, lo \in {I(-6), Zero}, hi \in {Zero, I(6)},
        f \in {"sin", "cos"}, an \in BOOLEAN}

Inputs ==
    QuadInputs \cup PolyInputs \cup EvalInputs \cup CubicInputs \cup SampleInputs
    \cup UiLinear \cup UiQuadratic \cup UiCubic \cup UiPolynomial \cup UiEllipse
    \cup UiTrig \cup LinearInputs \cup EllipseInputs \cup TrigInputs \cup ClipInputs

Init ==
    /\ inp \in Inputs
    /\ op = "none"
    /\ out = << >>
    /\ args = inp
    /\ first = [f |-> "none", out |-> << >>]
    /\ phase = 0
    /\ session = NewSession(FALSE)

\* one call in which polynomial_derivative writes the derivative into the
\* list it was given
CallInPlace(f, result) ==
    /\ op' = f
    /\ out' = result
    /\ inp' = IF f = "polynomial_derivative" THEN [inp EXCEPT !.coeffs = result]
              ELSE inp
    /\ first' = IF first.f = "none" THEN [f |-> f, out |-> result] ELSE first
    /\ phase' = IF first.f = "none" THEN 0
                ELSE IF f # first.f THEN (IF phase = 0 THEN 1 ELSE phase)
                ELSE IF phase >= 1 THEN 2
                ELSE phase
    /\ UNCHANGED << args, session >>

\* one call: the function named f is applied and its result kept; no
\* function assigns to its arguments or to a name outside itself
Call(f, result) ==
    /\ op' = f
    /\ out' = result
    /\ first' = IF first.f = "none" THEN [f |-> f, out |-> result] ELSE first
    /\ phase' = IF first.f = "none" THEN 0
                ELSE IF f # first.f THEN (IF phase = 0 THEN 1 ELSE phase)
                ELSE IF phase >= 1 THEN 2
                ELSE phase
    /\ UNCHANGED << inp, args, session >>

QuadraticRoots ==
    /\ inp.kind = "quad"
    /\ Call("quadratic_roots", quadratic_roots(inp.x[1], inp.x[2], inp.x[3]))

QuadraticVertex ==
    /\ inp.kind = "quad"
    /\ Call("quadratic_vertex", quadratic_vertex(inp.x[1], inp.x[2], inp.x[3]))

PolynomialValue ==
    /\ inp.kind \in {"poly", "eval"}
    /\ Call("polynomial_value", polynomial_value(inp.coeffs, inp.x[1]))

PolynomialDerivative ==
    /\ inp.kind \in {"poly", "eval", "cubic"}
    /\ Call("polynomial_derivative", polynomial_derivative(inp.coeffs))

FindRealRoots ==
    /\ inp.kind = "poly"
    /\ Call("find_real_roots", find_real_roots(inp.coeffs))

FindCriticalPoints ==
    /\ inp.kind = "poly"
    /\ Call("find_critical_points", find_critical_points(inp.coeffs, inp.x[2], inp.x[3]))

FindInflectionPoints ==
    /\ \/ /\ inp.kind = "poly"
          /\ Call("find_inflection_points",
                  find_inflection_points(inp.coeffs, inp.x[2], inp.x[3]))
       \/ /\ inp.kind = "cubic"
          /\ Call("find_inflection_points",
                  find_inflection_points(inp.coeffs, inp.x[1], inp.x[2]))

CubicDerivativeCoeffs ==
    /\ inp.kind = "cubic"
    /\ Call("cubic_derivative_coeffs",
            cubic_derivative_coeffs(inp.coeffs[1], inp.coeffs[2], inp.coeffs[3]))

CubicInflection ==
    /\ inp.kind = "cubic"
    /\ Call("cubic_inflection", cubic_inflection(inp.coeffs[1], inp.coeffs[2]))

SafeLinspace ==
    /\ inp.kind = "sample"
    /\ Call("safe_linspace", safe_linspace(inp.x[1], inp.x[2], inp.k))

LinearProperties ==
    /\ inp.kind = "linear"
    /\ Call("linear_properties", linear_properties(inp.x[1], inp.x[2]))

EllipseProperties ==
    /\ inp.kind = "ellipse"
    /\ Call("ellipse_properties", ellipse_properties(inp.x[1], inp.x[2]))

PlotEllipse ==
    /\ inp.kind = "ellipse"
    /\ Call("plot_ellipse", plot_ellipse(inp.x[1], inp.x[2]))

\* compute_trig on the array of the two bounds
ComputeTrig ==
    /\ inp.kind = "trig"
    /\ Call("compute_trig",
            compute_trig(inp.x[1], inp.x[2], inp.x[3], inp.tag, << inp.x[4], inp.x[5] >>))

TrigProperties ==
    /\ inp.kind = "trig"
    /\ Call("trig_properties", trig_properties(inp.x[1], inp.x[2], inp.x[3]))

PlotTrig ==
    /\ inp.kind = "trig"
    /\ Call("plot_trig",
            plot_trig(inp.x[1], inp.x[2], inp.x[3], inp.tag, inp.x[4], inp.x[5], inp.flag))

ClipY ==
    /\ inp.kind = "clip"
    /\ Call("clip_y", clip_y(inp.x))

RenderLinear ==
    /\ inp.kind = "ui_linear"
    /\ Call("render_linear", render_linear(inp.x[1], inp.x[2], inp.x[3], inp.x[4]))

RenderQuadratic ==
    /\ inp.kind = "ui_quadratic"
    /\ Call("render_quadratic",
            render_quadratic(inp.x[1], inp.x[2], inp.x[3], inp.x[4], inp.x[5]))

RenderCubic ==
    /\ inp.kind = "ui_cubic"
    /\ Call("render_cubic",
            render_cubic(inp.x[1], inp.x[2], inp.x[3], inp.x[4], inp.x[5], inp.x[6]))

RenderPolynomial ==
    /\ inp.kind = "ui_polynomial"
    /\ Call("render_polynomial",
            render_polynomial(inp.k, inp.coeffs, inp.x[1], inp.x[2]))

RenderEllipse ==
    /\ inp.kind = "ui_ellipse"
    /\ Call("render_ellipse", render_ellipse(inp.x[1], inp.x[2]))

RenderTrigonometric ==
    /\ inp.kind = "ui_trig"
    /\ Call("render_trigonometric",
            render_trigonometric(inp.tag, inp.x[1], inp.x[2], inp.x[3], inp.x[4],
                                 inp.x[5], inp.flag))

Next ==
    \/ QuadraticRoots
    \/ QuadraticVertex
    \/ PolynomialValue
    \/ PolynomialDerivative
    \/ FindRealRoots
    \/ FindCriticalPoints
    \/ FindInflectionPoints
    \/ CubicDerivativeCoeffs
    \/ CubicInflection
    \/ SafeLinspace
    \/ RenderLinear
    \/ RenderQuadratic
    \/ RenderCubic
    \/ RenderPolynomial
    \/ RenderEllipse
    \/ RenderTrigonometric
    \/ LinearProperties
    \/ EllipseProperties
    \/ PlotEllipse
    \/ ComputeTrig
    \/ TrigProperties
    \/ PlotTrig
    \/ ClipY

Spec == Init /\ [][Next]_vars

\* ---- a browser session: every event is followed by a run of the script
\* a session starts on the first page; the functions are called by the pages
SessionInit ==
    /\ inp = Input("session", << >>, << >>, 0, "", FALSE)
    /\ args = inp
    /\ first = [f |-> "none", out |-> << >>]
    /\ phase = 0
    /\ \E ki \in BOOLEAN : session = FirstRun(ki)
    /\ op = "start"
    /\ out = Rendered(session)

\* an event named e that leaves the session as s
Event(e, s) ==
    /\ session' = s
    /\ op' = e
    /\ out' = Rendered(s)
    /\ UNCHANGED << inp, args, first, phase >>

\* another family is chosen in the selector
SelectEquation ==
    \E i \in 1..Len(EQUATION_OPTIONS) :
        /\ EQUATION_OPTIONS[i] # session.selected
        /\ Event("select_equation", script_run(session, EQUATION_OPTIONS[i]))

\* a parameter slider of the page is moved
MoveSlider ==
    \E i \in 1..Len(session.free) :
        \E v \in {ParamSliders(session.selected)[i].dflt,
                  ParamSliders(session.selected)[i].other} :
            /\ v # session.free[i]
            /\ Event("move_slider",
                     script_run([session EXCEPT !.free[i] = v], session.selected))

\* a coefficient slider of the polynomial page is moved
MoveCoefficient ==
    /\ session.selected = "Polynomial"
    /\ \E k \in 0..session.degree :
        \E v \in CoeffMoves :
            /\ v # session.coeff[k].val
            /\ Event("move_coefficient",
                     script_run([session EXCEPT !.coeff[k].val = v, !.touched = TRUE],
                                session.selected))

\* another degree is chosen on the polynomial page
SelectDegree ==
    /\ session.selected = "Polynomial"
    /\ \E d \in MIN_DEGREE..MAX_DEGREE :
        /\ d # session.degree
        /\ Event("select_degree",
                 script_run([session EXCEPT !.degree = d], session.selected))

\* the Reset Parameters button is pressed
ResetParameters ==
    Event("reset", reset_parameters(session))

SessionNext ==
    \/ SelectEquation
    \/ MoveSlider
    \/ MoveCoefficient
    \/ SelectDegree
    \/ ResetParameters

SessionSpec == SessionInit /\ [][SessionNext]_vars

\* ================================================================ claims
\* the arguments of a call on a quadratic
QA == inp.x[1]

QB == inp.x[2]

QC == inp.x[3]

\* C1 (as claimed): for |a| >= 1e-12, quadratic_roots returns two ascending
\* real roots when D > 1e-10, the single root -b/(2a) when |D| <= 1e-10, and
\* no real root when D < -1e-10.
C1_TolerantBranching ==
    (op = "quadratic_roots" /\ Ge(Abs(QA), EPS_COEF)) =>
        LET D == quadratic_discriminant(QA, QB, QC)
        IN  /\ Gt(D, TOL_DISC) =>
                (Len(out.roots) = 2 /\ SLe(out.roots[1], out.roots[2]))
            /\ Le(Abs(D), TOL_DISC) =>
                (Len(out.roots) = 1
                 /\ Mul(out.roots[1].u, Mul(I(2), QA)) = Neg(QB)
                 /\ IsRat(out.roots[1]))
            /\ Lt(D, Neg(TOL_DISC)) => out.roots = << >>

\* C2: a degenerate quadratic is settled before the discriminant: constant
\* with no roots when |a|, |b| < 1e-12, linear with the root -c/b when only
\* |a| < 1e-12; no division by an a or b below 1e-12 in magnitude.
C2_DegenerateQuadratic ==
    op = "quadratic_roots" =>
        /\ (Lt(Abs(QA), EPS_COEF) /\ Lt(Abs(QB), EPS_COEF)) =>
               (out.nature = NatConstant /\ out.roots = << >>)
        /\ (Lt(Abs(QA), EPS_COEF) /\ Ge(Abs(QB), EPS_COEF)) =>
               /\ out.nature = NatLinear
               /\ Len(out.roots) = 1
               /\ IsRat(out.roots[1])
               /\ Mul(out.roots[1].u, QB) = Neg(QC)
        /\ "a" \in out.divs => Ge(Abs(QA), EPS_COEF)
        /\ "b" \in out.divs => Ge(Abs(QB), EPS_COEF)
        /\ ~AnyErr(out.roots)

\* a nonzero a below the guard, with b = 2 and c = -4: the linear root 2
C2_Witness ==
    /\ op = "quadratic_roots"
    /\ inp.x = << Dec(5, -13), I(2), I(-4) >>
    /\ out.nature = NatLinear
    /\ out.roots = << RatS(I(2)) >>

\* a x^2 + b x + c by powers, at the rational x
QuadAt(a, b, c, x) == Add(Add(Mul(a, Mul(x, x)), Mul(b, x)), c)

\* C3: the vertex is (0, c) when |a| < 1e-12 and (-b/(2a), f(-b/(2a)))
\* otherwise; it lies midway between two real roots and on a repeated root.
C3_Vertex ==
    op = "quadratic_vertex" =>
        LET qr == quadratic_roots(QA, QB, QC)
        IN  /\ Lt(Abs(QA), EPS_COEF) => out = << Zero, QC >>
            /\ Ge(Abs(QA), EPS_COEF) =>
                   /\ Mul(out[1], Mul(I(2), QA)) = Neg(QB)
                   /\ out[2] = QuadAt(QA, QB, QC, out[1])
            /\ qr.nature = NatTwoReal =>
                   /\ Len(qr.roots) = 2
                   /\ SLe(qr.roots[1], qr.roots[2])
                   /\ SEq(SDivNum(SAdd(qr.roots[1], qr.roots[2]), I(2)), RatS(out[1]))
            /\ qr.nature = NatRepeated => qr.roots = << RatS(out[1]) >>

\* x^2 - 4: roots -2 and 2, vertex (0, -4)
C3_Witness ==
    /\ op = "quadratic_vertex"
    /\ inp.x = << I(1), Zero, I(-4) >>
    /\ out = << Zero, I(-4) >>
    /\ quadratic_roots(QA, QB, QC).roots = << RatS(I(-2)), RatS(I(2)) >>

\* the handlers of the pages
RenderOps ==
    {"render_linear", "render_quadratic", "render_cubic", "render_polynomial",
     "render_ellipse", "render_trigonometric"}

\* C4: with values the sliders can reach, no page raises; a zero slope gives
\* no x-intercept (None), a = b = 0 no quadratic root, a = 0 no cubic
\* inflection (None), all-zero coefficients no polynomial root, B = 0 the
\* infinite period with frequency 0.
C4_NoException ==
    /\ op \in RenderOps => ~out.raised
    /\ (op = "render_linear" /\ inp.x[1] = Zero) => out.x_intercept = None
    /\ (op = "render_quadratic" /\ inp.x[1] = Zero /\ inp.x[2] = Zero) =>
           out.roots = << >>
    /\ (op = "render_cubic" /\ inp.x[1] = Zero) => out.inflection = None
    /\ (op = "render_polynomial" /\ AllZero(inp.coeffs)) =>
           (out.roots = << >> /\ out.in_range = << >>)
    /\ (op = "render_trigonometric" /\ inp.x[2] = Zero) =>
           (out.period = Infinite /\ out.frequency = Zero)
    /\ (op = "render_ellipse") => ~out.error

\* the horizontal line y = 3 drawn over the empty domain x_min = x_max = 0
C4_Witness ==
    /\ op = "render_linear"
    /\ inp.x = << Zero, I(3), Zero, Zero >>
    /\ ~out.raised
    /\ out.x_intercept = None

\* the upper bound safe_linspace samples up to
UpperBound(lo, hi) == IF Lt(lo, hi) THEN hi ELSE Add(lo, MIN_WIDTH)

\* what C5 says of the values v returned for the bounds lo, hi
SpansDomain(v, lo, hi) ==
    /\ \A i \in 1..(Len(v) - 1) : Le(v[i], v[i + 1])
    /\ Len(v) >= 1 =>
           /\ v[1] = lo
           /\ v[Len(v)] = UpperBound(lo, hi)
           /\ Lt(v[1], v[Len(v)])
    /\ \A i \in 1..(Len(v) - 1) :
           Mul(Sub(v[i + 1], v[i]), I(Len(v) - 1)) = Sub(UpperBound(lo, hi), lo)

C6_Derivative ==
    op = "polynomial_derivative" =>
        LET n == Len(inp.coeffs)
        IN  /\ n >= 2 =>
                /\ Len(out) = n - 1
                /\ \A i \in 0..(n - 2) : out[i + 1] = Mul(inp.coeffs[i + 1], I(n - 1 - i))
            /\ n <= 1 => out = << Zero >>
            /\ Len(out) >= 1
            /\ inp.coeffs = << I(1), Zero, Zero, Zero >> =>
                   polynomial_derivative(out) = << I(6), Zero >>

\* x^3: the derivative 3x^2, whose derivative is 6x
C6_Witness ==
    /\ op = "polynomial_derivative"
    /\ inp.coeffs = << I(1), Zero, Zero, Zero >>
    /\ out = << I(3), Zero, Zero >>
    /\ polynomial_derivative(out) = << I(6), Zero >>

\* x^k for a rational x
RECURSIVE NPow(_, _)
NPow(x, k) == IF k = 0 THEN One ELSE Mul(x, NPow(x, k - 1))

\* the sum of coeffs[i] * x^(n - i) over the indices i..n of the code, where
\* n = Len(coeffs) - 1
RECURSIVE PowerSumFrom(_, _, _)
PowerSumFrom(coeffs, x, i) ==
    IF i > Len(coeffs) - 1 THEN Zero
    ELSE Add(Mul(coeffs[i + 1], NPow(x, Len(coeffs) - 1 - i)),
             PowerSumFrom(coeffs, x, i + 1))

PowerSum(coeffs, x) == PowerSumFrom(coeffs, x, 0)

\* the same sum at a surd x
RECURSIVE SPow(_, _)
SPow(x, k) == IF k = 0 THEN RatS(One) ELSE SMul(x, SPow(x, k - 1))

RECURSIVE SPowerSumFrom(_, _, _)
SPowerSumFrom(coeffs, x, i) ==
    IF i > Len(coeffs) - 1 THEN RatS(Zero)
    ELSE SAdd(SMul(RatS(coeffs[i + 1]), SPow(x, Len(coeffs) - 1 - i)),
              SPowerSumFrom(coeffs, x, i + 1))

SPowerSum(coeffs, x) == SPowerSumFrom(coeffs, x, 0)

\* 1e-9: how far from 0 the value of a polynomial at a root may lie
ROOT_TOL == Dec(1, -9)

\* P(r) = 0 up to the tolerance
IsRootOf(p, r) ==
    LET v == SPowerSum(p, r)
    IN  IsRat(v) /\ Le(Abs(v.u), ROOT_TOL)

\* the halves from -3 to 3, between which the real roots of the polynomials lie
HalfGrid == {Num(k, 2, 0) : k \in -6..5}

Half == Num(1, 2, 0)

\* every rational root of p and every change of sign of p over the grid is
\* met by a value of rs
CoversRealRoots(p, rs) ==
    /\ \A c \in RootCands \cup {Zero} :
           PowerSum(p, c) = Zero => \E i \in 1..Len(rs) : rs[i] = RatS(c)
    /\ \A g \in HalfGrid :
           Sign(PowerSum(p, g)) * Sign(PowerSum(p, Add(g, Half))) < 0 =>
               \E i \in 1..Len(rs) : SLt(RatS(g), rs[i]) /\ SLt(rs[i], RatS(Add(g, Half)))

\* no coefficient of p lies strictly between -1 and 1 but 0 (the other
\* polynomials called with, x^2 + c for a tiny c > 0, have no real root)
UnitScale(p) == \A i \in 1..Len(p) : p[i] = Zero \/ Ge(Abs(p[i]), One)

\* p is a constant: no coefficient but the last is nonzero
IsConstant(p) == \A i \in 1..(Len(p) - 1) : p[i] = Zero

C8_PowerSum ==
    op = "polynomial_value" => out = PowerSum(inp.coeffs, inp.x[1])

\* -x^3 + x - 1 at x = 2: -8 + 2 - 1
C8_Witness ==
    /\ op = "polynomial_value"
    /\ inp.coeffs = << I(-1), Zero, I(1), I(-1) >>
    /\ inp.x[1] = I(2)
    /\ out = I(-7)

\* r lies in [lo, hi]
Within(r, lo, hi) == SLe(RatS(lo), r) /\ SLe(r, RatS(hi))

\* rs holds exactly the real roots of d that lie in [lo, hi], each as often
\* as find_real_roots(d) holds it, in ascending order
RootsWithin(d, lo, hi, rs) ==
    LET all == find_real_roots(d)
    IN  /\ \A i \in 1..Len(rs) :
               /\ Within(rs[i], lo, hi)
               /\ IsRootOf(d, rs[i])
               /\ \E j \in 1..Len(all) : all[j] = rs[i]
        /\ \A j \in 1..Len(all) :
               Within(all[j], lo, hi) => \E i \in 1..Len(rs) : rs[i] = all[j]
        /\ Len(rs) = Cardinality({j \in 1..Len(all) : Within(all[j], lo, hi)})
        /\ \A i \in 1..(Len(rs) - 1) : SLe(rs[i], rs[i + 1])

\* the range a search was called with
SearchLo == IF inp.kind = "cubic" THEN inp.x[1] ELSE inp.x[2]

SearchHi == IF inp.kind = "cubic" THEN inp.x[2] ELSE inp.x[3]

\* C9: find_critical_points returns exactly the real roots of
\* polynomial_derivative(coeffs) within [lo, hi], and nothing when that
\* derivative is all zero; find_inflection_points does so with the second
\* derivative; the derivative of the cubic (a, b, c, d) is the (3a, 2b, c)
\* of cubic_derivative_coeffs.
C9_CriticalPoints ==
    /\ op = "find_critical_points" =>
           LET d1 == polynomial_derivative(inp.coeffs)
           IN  IF AllZero(d1) THEN out = << >>
               ELSE RootsWithin(d1, SearchLo, SearchHi, out)
    /\ op = "find_inflection_points" =>
           LET d2 == polynomial_derivative(polynomial_derivative(inp.coeffs))
           IN  IF AllZero(d2) THEN out = << >>
               ELSE RootsWithin(d2, SearchLo, SearchHi, out)
    /\ op = "cubic_derivative_coeffs" => out = polynomial_derivative(inp.coeffs)

\* x^3 - x over [-1, 1]: the critical points -1/sqrt(3) and 1/sqrt(3)
C9_Witness ==
    /\ op = "find_critical_points"
    /\ inp.coeffs = << I(1), Zero, I(-1), Zero >>
    /\ inp.x[2] = I(-1)
    /\ Len(out) = 2
    /\ SLt(out[1], RatS(Zero))
    /\ SLt(RatS(Zero), out[2])

\* C10: cubic_inflection(a, b) is None exactly when |a| < 1e-12; otherwise
\* it is the x with 6a x + 2b = 0, that is -b / (3a), and
\* find_inflection_points returns just that x for a range that holds it.
C10_Inflection ==
    op = "cubic_inflection" =>
        LET a == inp.coeffs[1]
            b == inp.coeffs[2]
        IN  /\ (out = None) <=> Lt(Abs(a), EPS_COEF)
            /\ out # None =>
                   /\ IsRat(out[1])
                   /\ Add(Mul(Mul(I(6), a), out[1].u), Mul(I(2), b)) = Zero
                   /\ out[1].u = Div(Neg(b), Mul(I(3), a))
                   /\ Within(out[1], inp.x[1], inp.x[2]) =>
                          find_inflection_points(inp.coeffs, inp.x[1], inp.x[2])
                              = << out[1] >>

\* a = 1e-12, on the guard, and b = 1: the inflection near -3.3e11, which
\* the range from -1e13 to 1e13 holds
C10_Witness ==
    /\ op = "cubic_inflection"
    /\ inp.coeffs[1] = Dec(1, -12)
    /\ inp.coeffs[2] = I(1)
    /\ inp.x = << Dec(-1, 13), Dec(1, 13) >>
    /\ out = Some(RatS(Num(-1, 3, 12)))
    /\ find_inflection_points(inp.coeffs, inp.x[1], inp.x[2]) = << out[1] >>

\* C11: linear_properties returns slope m and y_intercept c; x_intercept is
\* None exactly when parallel_to_x is true, exactly when |m| < 1e-12; for
\* |m| >= 1e-12 the x_intercept x satisfies m x + c = 0.
C11_LinearProperties ==
    op = "linear_properties" =>
        LET m == inp.x[1]
            c == inp.x[2]
        IN  /\ out.slope = m
            /\ out.y_intercept = c
            /\ (out.x_intercept = None) <=> out.parallel_to_x
            /\ out.parallel_to_x <=> Lt(Abs(m), EPS_COEF)
            /\ Ge(Abs(m), EPS_COEF) =>
                   /\ out.x_intercept # None
                   /\ IsRat(out.x_intercept[1])
                   /\ Add(Mul(m, out.x_intercept[1].u), c) = Zero

\* the slope -1e-12, on the guard, with c = 3: the x-intercept 3e12
C11_Witness ==
    /\ op = "linear_properties"
    /\ inp.x = << Dec(-1, -12), I(3) >>
    /\ ~out.parallel_to_x
    /\ out.x_intercept = Some(RatS(Dec(3, 12)))

\* the semi-axes a call on an ellipse was made with
EA == inp.x[1]

EB == inp.x[2]

NonDegenerate(a, b) == Ge(Abs(a), EPS_AXIS) /\ Ge(Abs(b), EPS_AXIS)

\* the focus markers among the markers of a figure
FocusMarks(marks) == SelectSeq(marks, LAMBDA m : m.cat = "focus")

\* C12 (as claimed): a non-degenerate ellipse with |a| # |b| has its two foci
\* marked on the major axis at a distance c > 0 from the centre, (+-c, 0)
\* when |a| >= |b| and (0, +-c) when |a| < |b|; a circle has eccentricity 0,
\* focal distance 0 and no focus marked.
C12_FociOnMajorAxis ==
    (op = "plot_ellipse" /\ NonDegenerate(EA, EB)) =>
        LET f == FocusMarks(out.marks)
            p == ellipse_properties(EA, EB)
            z == RatS(Zero)
        IN  /\ Abs(EA) = Abs(EB) =>
                   (p.eccentricity = z /\ p.focal_distance = z /\ f = << >>)
            /\ Abs(EA) # Abs(EB) =>
                   /\ Len(f) = 2
                   /\ Ge(Abs(EA), Abs(EB)) =>
                          /\ f[1].y = z /\ f[2].y = z
                          /\ SLt(z, f[1].x) /\ f[2].x = SNeg(f[1].x)
                   /\ Lt(Abs(EA), Abs(EB)) =>
                          /\ f[1].x = z /\ f[2].x = z
                          /\ SLt(z, f[1].y) /\ f[2].y = SNeg(f[1].y)

\* what C13 says of the axes, the area and the orientation in the bundle p
AxesAndArea(p, a, b) ==
    /\ p.semi_major = (IF Ge(Abs(a), Abs(b)) THEN Abs(a) ELSE Abs(b))
    /\ p.semi_minor = (IF Ge(Abs(a), Abs(b)) THEN Abs(b) ELSE Abs(a))
    /\ p.major_axis_length = Add(p.semi_major, p.semi_major)
    /\ p.minor_axis_length = Add(p.semi_minor, p.semi_minor)
    /\ p.area = PiTimes(Mul(Abs(a), Abs(b)))
    /\ (p.major_axis_along = "x-axis") <=> Ge(Abs(a), Abs(b))
    /\ p.major_axis_along \in {"x-axis", "y-axis"}
    /\ (a = I(5) /\ b = I(3)) =>
           /\ p.semi_major = I(5) /\ p.semi_minor = I(3)
           /\ p.eccentricity = RatS(Dec(8, -1))
           /\ p.focal_distance = RatS(I(4))

\* (semi_minor / semi_major)^2
RatioSq(p) == Sq(Div(p.semi_minor, p.semi_major))

\* C13 (as claimed): for |a|, |b| >= 1e-9 the bundle holds the axes, the
\* axis lengths, the area pi |a| |b|, the orientation, and an eccentricity e
\* with 0 <= e < 1 and e^2 = 1 - (semi_minor / semi_major)^2.
C13_EccentricityBelowOne ==
    (op = "ellipse_properties" /\ NonDegenerate(EA, EB)) =>
        /\ AxesAndArea(out, EA, EB)
        /\ SLe(RatS(Zero), out.eccentricity)
        /\ SLt(out.eccentricity, RatS(One))
        /\ SEq(SMul(out.eccentricity, out.eccentricity), RatS(Sub(One, RatioSq(out))))

\* C13 (amended): for |a|, |b| >= 1e-9 the bundle holds the axes, the axis
\* lengths, the area, the orientation, and an eccentricity e with
\* 0 <= e <= 1; e < 1 and e^2 = 1 - (semi_minor / semi_major)^2 unless
\* (semi_minor / semi_major)^2 is below 2^-54, where 1 - it rounds to 1 and
\* e is 1.
C13_Geometry ==
    (op = "ellipse_properties" /\ NonDegenerate(EA, EB)) =>
        /\ AxesAndArea(out, EA, EB)
        /\ SLe(RatS(Zero), out.eccentricity)
        /\ SLe(out.eccentricity, RatS(One))
        /\ IF Le(RatioSq(out), ABSORBED)
           THEN out.eccentricity = RatS(One)
           ELSE /\ SLt(out.eccentricity, RatS(One))
                /\ SEq(SMul(out.eccentricity, out.eccentricity),
                       RatS(Sub(One, RatioSq(out))))

\* (a, b) = (5, 3): semi-axes 5 and 3, eccentricity 0.8, focal distance 4
C13_Witness ==
    /\ op = "ellipse_properties"
    /\ inp.x = << I(5), I(3) >>
    /\ out.semi_major = I(5)
    /\ out.eccentricity = RatS(Dec(8, -1))
    /\ out.focal_distance = RatS(I(4))
    /\ out.major_axis_along = "x-axis"

\* C14: for |a| < 1e-9 or |b| < 1e-9 the bundle of ellipse_properties holds
\* the error field and nothing else, and the figure of plot_ellipse holds
\* the curve and no marker.
C14_ErrorBundle ==
    (inp.kind = "ellipse" /\ ~NonDegenerate(EA, EB)) =>
        /\ op = "ellipse_properties" => DOMAIN out = {"error"}
        /\ op = "plot_ellipse" =>
               (~out.raised /\ Len(out.curves) = 1 /\ out.marks = << >>)

\* b = 0 next to a = 5: the figure holds the curve alone
C14_Witness ==
    /\ op = "plot_ellipse"
    /\ inp.x = << I(5), Zero >>
    /\ Len(out.curves) = 1
    /\ out.marks = << >>
    /\ DOMAIN ellipse_properties(EA, EB) = {"error"}

\* the parameters a call on a trigonometric curve was made with
TA == inp.x[1]

TB == inp.x[2]

TC == inp.x[3]

ComputeTrigAtPhase(A, B, C, k, m, func, x) ==
    LET r == compute_trig(A, B, C, func, x)
    IN  [raised |-> r.raised,
         y |-> [j \in 1..Len(r.y) |->
                  IF r.y[j].fn = "zero" THEN r.y[j]
                  ELSE [r.y[j] EXCEPT !.k = k, !.m = m]]]

\* the sample points plot_trig draws over
TrigSamples == safe_linspace(inp.x[4], inp.x[5], PlotSamples).vals

\* C16 (as claimed): the animated figure has 60 frames; frame i adds the
\* phase phi_i = i / 59 * 2 pi (phi_0 = 0, phi_59 = 2 pi, evenly spaced), and
\* its y-values are those of compute_trig(A, B, C + phi_i, func, x).
C16_FramesFromComputeTrig ==
    (op = "plot_trig" /\ inp.flag /\ ~out.raised) =>
        /\ Len(out.frames) = N_FRAMES
        /\ \A i \in 1..Len(out.frames) :
               LET want == ComputeTrigAtPhase(TA, TB, TC, i - 1, N_FRAMES - 1,
                                              inp.tag, TrigSamples)
               IN  ~want.raised /\ out.frames[i] = want.y

\* C17 (as claimed): compute_trig, and plot_trig with or without animation,
\* raise for every function tag other than "sin" and "cos", whatever A, B, C
\* and x are, and never raise for "sin" and "cos".
C17_UnknownTagRaises ==
    op \in {"compute_trig", "plot_trig"} =>
        (out.raised <=> inp.tag \notin {"sin", "cos"})

\* the sign P(x) keeps for all sufficiently large x: that of the first
\* nonzero coefficient, 0 for the zero polynomial
EventualSign(coeffs) ==
    LET nz == {i \in 1..Len(coeffs) : coeffs[i] # Zero}
    IN  IF nz = {} THEN 0
        ELSE LET lead == CHOOSE i \in nz : \A j \in nz : i <= j
             IN  IF Gt(coeffs[lead], Zero) THEN 1 ELSE -1

\* C18 (as claimed): for slider values of degree 1 to 6 the reported end
\* behaviour for x -> +infinity is "+infinity" exactly when P(x) is positive
\* for all large x and "-infinity" exactly when it is negative for all large x.
C18_EndBehaviour ==
    (op = "render_polynomial" /\ ~out.raised) =>
        /\ out.degree \in MIN_DEGREE..MAX_DEGREE
        /\ out.end_behavior = "+inf" => EventualSign(out.coeffs) = 1
        /\ out.end_behavior = "-inf" => EventualSign(out.coeffs) = -1

\* v lies in [-1e6, 1e6]
InClipRange(v) == Le(Neg(Y_MAX), v) /\ Le(v, Y_MAX)

\* the element clip_y must return for v
Clipped(v) ==
    IF InClipRange(v) THEN v
    ELSE IF Gt(v, Zero) THEN Y_MAX
    ELSE Neg(Y_MAX)

\* the curves of the figure a rendered page holds
FigureCurves == out.fig.curves

\* curves whose y-values are computed below: sample points 0 or of unit
\* size, and degree at most 4
Evaluable(curve) ==
    /\ Len(curve.params) <= 5
    /\ \A i \in 1..Len(curve.xs) :
           curve.xs[i] = Zero \/ Ge(Abs(curve.xs[i]), Dec(5, -1))

\* the y-values a curve hands to the figure
CurveValues(curve) ==
    LET raw == [i \in 1..Len(curve.xs) |-> polynomial_value(curve.params, curve.xs[i])]
    IN  IF curve.clipped THEN clip_y(raw) ELSE raw

\* the curves of a rendered cubic or polynomial figure are clipped, and
\* their y-values lie in [-1e6, 1e6]
CurvesClipped ==
    (op \in {"render_cubic", "render_polynomial"} /\ ~out.raised) =>
        /\ Len(FigureCurves) = (IF op = "render_cubic" THEN 2 ELSE 1)
        /\ \A i \in 1..Len(FigureCurves) :
               /\ FigureCurves[i].clipped
               /\ Evaluable(FigureCurves[i]) =>
                      \A j \in 1..Len(FigureCurves[i].xs) :
                          InClipRange(CurveValues(FigureCurves[i])[j])

\* C19 (as claimed): for every input array clip_y returns an array of the
\* same length whose elements all lie in [-1e6, 1e6], equal the input where
\* that lies inside and the nearer bound otherwise; the cubic curve, its
\* derivative curve and the polynomial curve of a figure are clipped.
C19_AnyArray ==
    /\ op = "clip_y" =>
           /\ Len(out) = Len(inp.x)
           /\ \A i \in 1..Len(out) :
                  InClipRange(out[i]) /\ out[i] = Clipped(inp.x[i])
           /\ clip_y(out) = out
    /\ CurvesClipped

\* C19: clip_y returns an array of the same length; an element that is a
\* number lies in [-1e6, 1e6], equals the input where that lies inside and
\* the nearer bound otherwise, an element that is NaN stays NaN, and clipping
\* twice changes nothing; the cubic curve, its derivative curve and the
\* polynomial curve of a figure are clipped.
C19_ClipY ==
    /\ op = "clip_y" =>
           /\ Len(out) = Len(inp.x)
           /\ \A i \in 1..Len(out) :
                  IF inp.x[i] = NaN THEN out[i] = NaN
                  ELSE InClipRange(out[i]) /\ out[i] = Clipped(inp.x[i])
           /\ clip_y(out) = out
    /\ CurvesClipped

\* an array with a value beyond each bound is brought to the bounds
C19_Witness ==
    /\ op = "clip_y"
    /\ inp.x = << Dec(2, 6), Dec(-3, 7) >>
    /\ out = << Y_MAX, Neg(Y_MAX) >>

\* x^4 drawn over [-50, 50] reaches 6.25e6 at both ends and is clipped there
C19_CurveClipped ==
    /\ op = "render_polynomial"
    /\ out.coeffs = << I(1), Zero, Zero, Zero, Zero >>
    /\ polynomial_value(out.coeffs, I(50)) = Dec(625, 4)
    /\ FigureCurves[1].xs = << I(-50), Zero, I(50) >>
    /\ CurveValues(FigureCurves[1]) = << Y_MAX, Zero, Y_MAX >>

\* the computation functions
ComputationFunctions ==
    {"safe_linspace", "polynomial_derivative", "find_real_roots", "quadratic_roots",
     "quadratic_vertex", "linear_properties", "cubic_inflection",
     "ellipse_properties", "compute_trig", "trig_properties"}

PolyCoeffSlider(k) == inp.coeffs[k + 1]

\* C21: for each degree d in 1..6 the polynomial page works on a coefficient
\* sequence of length d + 1, highest degree first: its element i (from 0) is
\* the value of the slider keyed poly_coeff_(d - i).
C21_CoeffsFromSidebar ==
    (op = "render_polynomial") =>
        LET d == inp.k
        IN  /\ d \in MIN_DEGREE..MAX_DEGREE
            /\ Len(out.coeffs) = d + 1
            /\ Len(out.coeffs) \in 2..7
            /\ \A i \in 0..d : out.coeffs[i + 1] = PolyCoeffSlider(d - i)
            /\ out.degree = d

\* degree 3 with poly_coeff_3 = 1, poly_coeff_1 = -1: the sequence [1, 0, -1, 0]
C21_Witness ==
    /\ op = "render_polynomial"
    /\ inp.k = 3
    /\ inp.coeffs = << Zero, I(-1), Zero, I(1) >>
    /\ out.coeffs = << I(1), Zero, I(-1), Zero >>

\* the coefficient sequence the sliders of degree d declare as their
\* default: 1.0 for x^d and 0.0 for every other power
DefaultCoeffs(d) == [i \in 1..(d + 1) |-> IF i = 1 THEN I(1) ELSE Zero]

\* every parameter slider of the page shows the default it declares
ParamsAtDefault ==
    /\ Len(out.params) = Len(ParamSliders(out.selected))
    /\ \A i \in 1..Len(out.params) :
           out.params[i] = ParamSliders(out.selected)[i].dflt

\* the degree selector and the coefficient sliders show their defaults, and
\* the session holds no other value under poly_degree and poly_coeff_*
PolynomialAtDefault ==
    /\ out.selected = "Polynomial" =>
           /\ out.degree = DEFAULT_DEGREE
           /\ out.coeffs = DefaultCoeffs(DEFAULT_DEGREE)
    /\ \A k \in 0..MAX_DEGREE :
           session.coeff[k].held =>
               session.coeff[k].val = (IF k = session.degree THEN I(1) ELSE Zero)

\* C22 (as claimed): on the run that follows a press of Reset Parameters,
\* every parameter slider of the selected family and the degree selector
\* show their defaults, and poly_degree and poly_coeff_* hold no earlier value.
C22_ResetRestoresDefaults ==
    op = "reset" => (ParamsAtDefault /\ PolynomialAtDefault)

\* C23 (as claimed): as long as no coefficient slider has been moved, the
\* coefficient sequence of the polynomial page is the default of the selected
\* degree: 1.0 for x^d, 0.0 elsewhere, whatever degrees were selected before.
C23_DegreeChangeDefaults ==
    (session.selected = "Polynomial" /\ ~session.touched) =>
        /\ out.degree \in MIN_DEGREE..MAX_DEGREE
        /\ out.coeffs = DefaultCoeffs(out.degree)

====
